---- MODULE Spec2Model ----
(***************************************************************************)
(* A model of the SIMT simulator of lib/gpu-simulator: instruction         *)
(* decoder, register file, execution unit, direct-mapped cache, coalescing *)
(* memory controller, warp scheduler and the execution engine's cycle.     *)
(*                                                                         *)
(* Numbers.  The simulator's words are JavaScript numbers that hold        *)
(* integers in [-2^31, 2^32).  The places of the source that read one     *)
(* (>>> 0, | 0, &, >>, === 0, array indexing after >>> 0) depend on its    *)
(* 32-bit pattern only, so the model stores a word as that pattern read    *)
(* as a signed 32-bit integer: 0xFFFFFFFF and -1 are the same word.  The   *)
(* two places that read more than the pattern are compare()'s equal,      *)
(* which executeCMP drops, and multiply()'s double-precision product.     *)
(* All arithmetic is done on 16-bit halves so that no intermediate value   *)
(* leaves the 32-bit range.                                                *)
(***************************************************************************)
EXTENDS Integers, Sequences, FiniteSets, TLC

VARIABLES
    \* ExecutionEngine
    instructionMemory,  \* Word[]: the loaded program
    memory,             \* Word[]: the engine's global memory
    cycle,              \* the engine's cycle counter
    maxCycles,          \* config.maxCycles || 1000000
    config,             \* ExecutionConfig: memory (MemoryConfig), enableCache
    \* RegisterFile
    registers,          \* Map threadId -> 16 words
    \* ThreadState objects and ThreadScheduler
    threads,            \* the ThreadState objects handed to initializeBlocks
    warps,              \* Warp[]: each warp lists positions in threads
    currentWarpIndex,   \* round-robin cursor
    schedCycle,         \* ThreadScheduler.cycle
    \* Cache
    cache,              \* the Cache object: config, lines, hits, misses
    \* MemoryController
    mcMemory,           \* the controller's own memory array
    pendingRequests,    \* MemoryRequest[]
    responseQueue,      \* Map requestId -> MemoryResponse
    \* observation of the calls (what the last call did and returned)
    lastReturn,         \* the last executeCycle: "none", "true", "false", "threw"
    executed,           \* per thread: the opcode it executed in the last executeCycle
    firstResult,        \* the result of the first completed run(), or << >>
    resets,             \* number of reset() calls so far
    opCount,            \* number of direct Cache / MemoryController calls so far
    lastAccess,         \* the last direct Cache call, or the last batch serviced
    written,            \* address -> value of the most recent Cache.write to it
    reference           \* the last batch serviced one request at a time

vars == << instructionMemory, memory, cycle, maxCycles, config, registers, threads,
           warps, currentWarpIndex, schedCycle, cache, mcMemory, pendingRequests,
           responseQueue, lastReturn, executed, firstResult, resets, opCount,
           lastAccess, written, reference >>

engineVars == << instructionMemory, memory, cycle, maxCycles, config, registers,
                 threads, warps, currentWarpIndex, schedCycle, cache, mcMemory,
                 pendingRequests, responseQueue >>

(***************************************************************************)
(* Program constants                                                       *)
(***************************************************************************)
numRegisters == 16
warpSize == 32
CoalesceDistance == 4
ThreadIdFactor == 1000000
BlockIdFactor == 10000

(***************************************************************************)
(* 32-bit words                                                            *)
(***************************************************************************)
Half == 256 * 256
MinInt32 == -2147483647 - 1

\* The word whose pattern has high half h and low half l (any integers).
FromHalves(h, l) ==
    LET hh == h % Half
        hs == IF hh >= 32768 THEN hh - Half ELSE hh
    IN  hs * Half + (l % Half)

\* 2^k for 0 <= k <= 15.
TwoTo(k) ==
    << 1, 2, 4, 8, 16, 32, 64, 128, 256, 512, 1024, 2048, 4096, 8192, 16384,
       32768 >>[k + 1]

\* Bitwise operation on the n low bits of a and b, by halves of the bits.
\* f[<<p, q>>] is the result bit for operand bits p and q.
RECURSIVE BitsLow(_, _, _, _)
BitsLow(f, a, b, n) ==
    IF n = 1 THEN f[<< a % 2, b % 2 >>]
    ELSE BitsLow(f, a % TwoTo(n \div 2), b % TwoTo(n \div 2), n \div 2)
         + TwoTo(n \div 2)
             * BitsLow(f, a \div TwoTo(n \div 2), b \div TwoTo(n \div 2), n - (n \div 2))

\* Bitwise operation on two words: bits 0 to 30, and the sign bit apart.
BitsHigh(f, a, b, low) ==
    IF f[<< (IF a < 0 THEN 1 ELSE 0), (IF b < 0 THEN 1 ELSE 0) >>] = 1
    THEN MinInt32 + low ELSE low

Bitwise(f, a, b) == BitsHigh(f, a, b, BitsLow(f, a, b, 31))

AndBits == [p \in {0, 1} \X {0, 1} |-> IF p[1] = 1 /\ p[2] = 1 THEN 1 ELSE 0]
OrBits  == [p \in {0, 1} \X {0, 1} |-> IF p[1] = 1 \/ p[2] = 1 THEN 1 ELSE 0]
XorBits == [p \in {0, 1} \X {0, 1} |-> IF p[1] # p[2] THEN 1 ELSE 0]

BitAnd(a, b) == Bitwise(AndBits, a, b)
BitOr(a, b)  == Bitwise(OrBits, a, b)
BitXor(a, b) == Bitwise(XorBits, a, b)

\* x << k for 0 <= k < 16, wrapping to 32 bits.
RECURSIVE ShiftLeft(_, _)
ShiftLeft(x, k) ==
    IF k = 0 THEN x
    ELSE ShiftLeft(FromHalves(2 * (x \div Half) + ((x % Half) \div 32768), 2 * (x % Half)), k - 1)

\* x >> k (arithmetic), k >= 0.
RECURSIVE ShiftRight(_, _)
ShiftRight(x, k) == IF k = 0 THEN x ELSE ShiftRight(x \div 2, k - 1)

\* JavaScript's a % n for an integer a and n > 0: the sign follows a.
JsRem(a, n) == IF a >= 0 \/ a % n = 0 THEN a % n ELSE (a % n) - n

\* a % n where a is the unsigned reading of a word and n > 0 is small.
UnsignedRem(a, n) ==
    IF a >= 0 THEN a % n
    ELSE ((a % n) + (((Half % n) * (Half % n)) % n)) % n

\* Math.log2(n) truncated the way a shift count is (ToUint32), n >= 1.
RECURSIVE Log2Floor(_)
Log2Floor(n) == IF n <= 1 THEN 0 ELSE 1 + Log2Floor(n \div 2)

(***************************************************************************)
(* InstructionDecoder (instruction-set/decoder.ts)                         *)
(***************************************************************************)
opcodes ==
    << "NOP", "CONST", "ADD", "SUB", "MUL", "DIV", "AND", "OR", "XOR", "LDR",
       "STR", "BR", "BRz", "BRnz", "BRn", "BRp", "CMP", "RET" >>

opcodeToString(opcode) ==
    IF opcode + 1 \in DOMAIN opcodes THEN opcodes[opcode + 1] ELSE "NOP"

\* An opcode read from bits 30-24 only.
getOpcodeSevenBits(instruction) == opcodeToString((instruction \div 16777216) % 128)

getOpcode(instruction) == opcodeToString((instruction \div 16777216) % 256)
getRd(instruction) == (instruction \div 1048576) % 16
getRs1(instruction) == (instruction \div Half) % 16
getRs2(instruction) == (instruction \div 4096) % 16

\* An immediate that is not sign-extended.
getImmediateUnsigned(instruction) == instruction % Half

getImmediate(instruction) ==
    LET imm == instruction % Half
    IN  IF imm >= 32768 THEN imm - Half ELSE imm

AluOpcodes == {"ADD", "SUB", "MUL", "DIV", "AND", "OR", "XOR"}
BranchOpcodes == {"BR", "BRz", "BRnz", "BRn", "BRp"}

\* An Instruction object: has is the set of its defined optional fields
\* (a field outside has is undefined, and its value here is not read).
MkInstruction(op, has, rd, rs1, rs2, imm) ==
    [opcode |-> op, has |-> has, rd |-> rd, rs1 |-> rs1, rs2 |-> rs2, immediate |-> imm]

decode(instruction) ==
    LET opcode == getOpcode(instruction)
    IN  CASE opcode = "CONST" ->
                MkInstruction("CONST", {"rd", "immediate"},
                              getRd(instruction), 0, 0, getImmediate(instruction))
          [] opcode \in AluOpcodes ->
                MkInstruction(opcode, {"rd", "rs1", "rs2"},
                              getRd(instruction), getRs1(instruction), getRs2(instruction), 0)
          [] opcode \in {"LDR", "STR"} ->
                MkInstruction(opcode, {"rd", "rs1", "immediate"},
                              getRd(instruction), getRs1(instruction), 0, getImmediate(instruction))
          [] opcode \in BranchOpcodes ->
                MkInstruction(opcode, {"rs1", "immediate"},
                              0, getRs1(instruction), 0, getImmediate(instruction))
          [] opcode = "CMP" ->
                MkInstruction("CMP", {"rs1", "rs2"},
                              0, getRs1(instruction), getRs2(instruction), 0)
          [] opcode = "RET" -> MkInstruction("RET", {}, 0, 0, 0, 0)
          [] OTHER -> MkInstruction("NOP", {}, 0, 0, 0, 0)

(***************************************************************************)
(* RegisterFile (core/register-file.ts).  regs is the Map: a function from *)
(* the initialized thread ids to their 16 registers.                       *)
(***************************************************************************)
ZeroRegisters == [r \in 0 .. numRegisters - 1 |-> 0]

initializeThread(regs, threadId) ==
    IF threadId \in DOMAIN regs THEN regs
    ELSE (threadId :> ZeroRegisters) @@ regs

\* read(): the value returned (its side effect is initializeThread).
read(regs, threadId, reg) ==
    IF threadId \notin DOMAIN regs THEN 0
    ELSE IF reg >= 0 /\ reg < numRegisters THEN regs[threadId][reg]
    ELSE 0

\* A write that takes the register index modulo the number of registers.
writeWrapped(regs, threadId, reg, value) ==
    [initializeThread(regs, threadId) EXCEPT ![threadId][reg % numRegisters] = value]

write(regs, threadId, reg, value) ==
    LET had == initializeThread(regs, threadId)
    IN  IF reg >= 0 /\ reg < numRegisters
        THEN [had EXCEPT ![threadId][reg] = value]
        ELSE had

\* A getRegisters that returns a fresh array of zeros.
getRegistersZero(regs, threadId) == ZeroRegisters

\* getRegisters(threadId): the values of the array returned.
getRegisters(regs, threadId) == initializeThread(regs, threadId)[threadId]

\* Whether the array getRegisters returns is the register file's own array:
\* a thread with an entry gets a copy ([...threadRegs]), a thread without
\* one gets the array that initializeThread has just stored in the Map.
getRegistersShares(regs, threadId) == threadId \notin DOMAIN regs

\* A clear that keeps the Map's entries.
clearNothing(regs) == regs

clearAll(regs) == << >>

(***************************************************************************)
(* ExecutionUnit (core/execution-unit.ts)                                  *)
(***************************************************************************)
\* An addition that drops the carries.
addWithoutCarry(a, b) == BitXor(a, b)

add(a, b) ==
    LET lo == (a % Half) + (b % Half)
    IN  FromHalves((a \div Half) + (b \div Half) + (lo \div Half), lo)

subtract(a, b) ==
    LET lo == (a % Half) - (b % Half)
    IN  FromHalves((a \div Half) - (b \div Half) + (lo \div Half), lo)

\* a * byte as a word, for 0 <= byte < 256.
MulByte(a, byte) ==
    FromHalves(((a \div Half) % Half) * byte + (((a % Half) * byte) \div Half),
               (a % Half) * byte)

\* x << 8, x << 16 and x << 24 as words.
ShiftLeft8(x) ==
    FromHalves(((x \div Half) % Half) * 256 + ((x % Half) \div 256),
               ((x % Half) % 256) * 256)
ShiftLeft16(x) == FromHalves(x % Half, 0)
ShiftLeft24(x) == FromHalves(((x % Half) % 256) * 256, 0)

\* a * b >>> 0 by the four bytes of b; equal to the source's
\* double-precision product whenever |a * b| < 2^53.
multiply(a, b) ==
    add(add(MulByte(a, b % 256),
            ShiftLeft8(MulByte(a, (b \div 256) % 256))),
        add(ShiftLeft16(MulByte(a, (b \div Half) % 256)),
            ShiftLeft24(MulByte(a, (b \div 16777216) % 256))))

\* Math.floor((a | 0) / (b | 0)) >>> 0
\* A division by 0 that returns the dividend (quotients are not computed).
divideKeepsDividend(a, b) == IF b = 0 THEN a ELSE 0

divide(a, b) ==
    IF b = 0 THEN 0
    ELSE IF b > 0 THEN a \div b
    ELSE IF b = MinInt32 THEN (IF a = MinInt32 THEN 1 ELSE IF a > 0 THEN -1 ELSE 0)
    ELSE IF a = MinInt32
         THEN (IF b = -1 THEN MinInt32
               ELSE LET m == -(a + 1)
                        q == m \div (-b)
                    IN  IF (m % (-b)) = ((-b) - 1) THEN q + 1 ELSE q)
    ELSE (-a) \div (-b)

checkAddOverflow(a, b, result) ==
    \/ a > 0 /\ b > 0 /\ result < 0
    \/ a < 0 /\ b < 0 /\ result > 0

checkSubOverflow(a, b, result) ==
    \/ a > 0 /\ b < 0 /\ result < 0
    \/ a < 0 /\ b > 0 /\ result > 0

\* The ALUResult for operands val1, val2 and the operation's result.  The
\* overflow flag of MUL (checkMulOverflow) is not modelled: it compares
\* double-precision products, and executeALU of instructions.ts, the only
\* caller, keeps the result field alone.
ALUResult(op, val1, val2, result) ==
    [result |-> result, zero |-> result = 0, negative |-> result < 0,
     overflow |-> CASE op = "ADD" -> checkAddOverflow(val1, val2, result)
                    [] op = "SUB" -> checkSubOverflow(val1, val2, result)
                    [] OTHER -> FALSE]

ALUOperation(op, val1, val2) ==
    ALUResult(op, val1, val2,
              CASE op = "ADD" -> add(val1, val2)
                [] op = "SUB" -> subtract(val1, val2)
                [] op = "MUL" -> multiply(val1, val2)
                [] op = "DIV" -> divide(val1, val2)
                [] op = "AND" -> BitAnd(val1, val2)
                [] op = "OR"  -> BitOr(val1, val2)
                [] op = "XOR" -> BitXor(val1, val2)
                [] OTHER -> 0)

executeALU(regs, threadId, op, rs1, rs2) ==
    ALUOperation(op, read(regs, threadId, rs1),
                 IF rs2 < 16 THEN read(regs, threadId, rs2) ELSE rs2)

(***************************************************************************)
(* JavaScript arrays of words.  An array is a function from the indices    *)
(* that hold an element to the elements; a store at an index at or beyond  *)
(* the length grows the array.  Reading an index that holds nothing gives  *)
(* undefined, which the places that use the value read as 0.               *)
(***************************************************************************)
NewArray(n) == [i \in 0 .. n - 1 |-> 0]

ArrayLength(arr) ==
    LET idx == {i \in DOMAIN arr : i >= 0}
    IN  IF idx = {} THEN 0 ELSE (CHOOSE m \in idx : \A i \in idx : i <= m) + 1

ArrayGet(arr, i) == IF i \in DOMAIN arr THEN arr[i] ELSE 0

ArrayStore(arr, i, v) == (i :> v) @@ arr

ArrayFill(arr, v) == [j \in DOMAIN arr |-> v]

(***************************************************************************)
(* Cache (memory/cache.ts).  c is the cache object: config, lines, hits,   *)
(* misses; mem is the memory array handed to the call.                     *)
(***************************************************************************)
NewCache(cfg) ==
    [config |-> cfg,
     lines  |-> [i \in 0 .. cfg.cacheSize - 1 |->
                    [tag |-> 0, data |-> NewArray(cfg.lineSize),
                     valid |-> FALSE, dirty |-> FALSE]],
     hits   |-> 0,
     misses |-> 0]

getLineIndex(c, address) == JsRem(ShiftRight(address, 2), c.config.cacheSize)

getTag(c, address) == ShiftRight(address, (2 + Log2Floor(c.config.cacheSize)) % 32)

getOffset(c, address) == UnsignedRem(address, c.config.lineSize)

\* The address a resident line is written back to.
WriteBackBase(tag, lineIndex) == BitOr(ShiftLeft(tag, 2), ShiftLeft(lineIndex, 2))

\* memory[base + i] = data[i] for i = from .. lineSize - 1, where in range.
RECURSIVE WriteBackWords(_, _, _, _, _)
WriteBackWords(mem, base, data, from, lineSize) ==
    IF from >= lineSize THEN mem
    ELSE WriteBackWords(
             IF base + from < ArrayLength(mem)
             THEN ArrayStore(mem, base + from, data[from]) ELSE mem,
             base, data, from + 1, lineSize)

\* The end of loadLine: the line is loaded from mem1, the memory after the
\* write-back.
LoadFrom(c, mem1, lineIndex, tag, baseAddress) ==
    [cache |-> [c EXCEPT !.lines[lineIndex] =
                   [tag |-> tag,
                    data |-> [i \in 0 .. c.config.lineSize - 1 |->
                                 IF baseAddress + i < ArrayLength(mem1)
                                 THEN ArrayGet(mem1, baseAddress + i) ELSE 0],
                    valid |-> TRUE, dirty |-> FALSE]],
     mem |-> mem1]

LoadLineAt(c, mem, lineIndex, tag, baseAddress, line) ==
    LoadFrom(c,
             IF line.valid /\ line.dirty
             THEN WriteBackWords(mem, WriteBackBase(line.tag, lineIndex),
                                 line.data, 0, c.config.lineSize)
             ELSE mem,
             lineIndex, tag, baseAddress)

\* loadLine(address, memory): the cache and the memory after it.
loadLine(c, mem, address) ==
    LoadLineAt(c, mem, getLineIndex(c, address), getTag(c, address),
               ShiftLeft(ShiftRight(address, 2), 2),
               c.lines[getLineIndex(c, address)])

\* Cache.read on a miss, after loadLine gave l.
ReadLoaded(l, lineIndex, offset) ==
    [cache |-> l.cache, mem |-> l.mem, data |-> l.cache.lines[lineIndex].data[offset],
     hit |-> FALSE, threw |-> FALSE]

CacheReadAt(c, mem, address, lineIndex, tag, offset) ==
    IF lineIndex \notin DOMAIN c.lines
    THEN [cache |-> c, mem |-> mem, data |-> 0, hit |-> FALSE, threw |-> TRUE]
    ELSE IF c.lines[lineIndex].valid /\ c.lines[lineIndex].tag = tag
    THEN [cache |-> [c EXCEPT !.hits = @ + 1], mem |-> mem,
          data |-> c.lines[lineIndex].data[offset], hit |-> TRUE, threw |-> FALSE]
    ELSE ReadLoaded(loadLine([c EXCEPT !.misses = @ + 1], mem, address),
                    lineIndex, offset)

\* Cache.read(address, memory): {data, hit}, the cache and the memory after
\* it; threw when lines[lineIndex] is undefined (a TypeError on line.valid).
CacheRead(c, mem, address) ==
    CacheReadAt(c, mem, address, getLineIndex(c, address), getTag(c, address),
                getOffset(c, address))

\* A write on a miss that stores the word but leaves the line clean.
WriteLoadedClean(l, address, data, lineIndex, offset) ==
    [cache |-> [l.cache EXCEPT !.lines[lineIndex].data[offset] = data],
     mem |-> ArrayStore(l.mem, address, data), hit |-> FALSE, threw |-> FALSE]

\* Cache.write on a miss, after loadLine gave l.
WriteLoaded(l, address, data, lineIndex, offset) ==
    [cache |-> [l.cache EXCEPT !.lines[lineIndex].data[offset] = data,
                               !.lines[lineIndex].dirty = TRUE],
     mem |-> ArrayStore(l.mem, address, data), hit |-> FALSE, threw |-> FALSE]

CacheWriteAt(c, mem, address, data, lineIndex, tag, offset) ==
    IF lineIndex \notin DOMAIN c.lines
    THEN [cache |-> c, mem |-> mem, hit |-> FALSE, threw |-> TRUE]
    ELSE IF c.lines[lineIndex].valid /\ c.lines[lineIndex].tag = tag
    THEN [cache |-> [c EXCEPT !.lines[lineIndex].data[offset] = data,
                              !.lines[lineIndex].dirty = TRUE,
                              !.hits = @ + 1],
          mem |-> ArrayStore(mem, address, data), hit |-> TRUE, threw |-> FALSE]
    ELSE WriteLoaded(loadLine([c EXCEPT !.misses = @ + 1], mem, address),
                     address, data, lineIndex, offset)

\* Cache.write(address, data, memory).
CacheWrite(c, mem, address, data) ==
    CacheWriteAt(c, mem, address, data, getLineIndex(c, address), getTag(c, address),
                 getOffset(c, address))

\* The loop of flush over the lines i, i + 1, ...: each valid dirty line is
\* written back and marked clean.
RECURSIVE FlushLines(_, _, _)
FlushLines(c, mem, i) ==
    IF i >= c.config.cacheSize THEN [cache |-> c, mem |-> mem]
    ELSE IF c.lines[i].valid /\ c.lines[i].dirty
    THEN FlushLines([c EXCEPT !.lines[i].dirty = FALSE],
                    WriteBackWords(mem, WriteBackBase(c.lines[i].tag, i),
                                   c.lines[i].data, 0, c.config.lineSize),
                    i + 1)
    ELSE FlushLines(c, mem, i + 1)

\* flush(memory): the cache and the memory after it.
flush(c, mem) == FlushLines(c, mem, 0)

\* A resetStats that clears the hit counter only.
resetHitsOnly(c) == [c EXCEPT !.hits = 0]

resetStats(c) == [c EXCEPT !.hits = 0, !.misses = 0]

(***************************************************************************)
(* MemoryController (memory/memory-controller.ts).  A MemoryRequest is a   *)
(* record address, data, hasData (data !== undefined), write, threadId,    *)
(* blockId; the response queue is a function from request ids.             *)
(***************************************************************************)
MapSet(map, key, value) == (key :> value) @@ map

\* TRUE.  Deciding it evaluates v, so a loop that tests its state at every
\* iteration is evaluated iteration by iteration.
Evaluated(v) == v = v

request(pending, req) == Append(pending, req)

\* The position of reqs[i] after Array.prototype.sort with
\* (a, b) => a.address - b.address, which is stable.
SortedPosition(reqs, i) ==
    1 + Cardinality({j \in 1 .. Len(reqs) :
                        \/ reqs[j].address < reqs[i].address
                        \/ reqs[j].address = reqs[i].address /\ j < i})

SortByAddress(reqs) ==
    [k \in 1 .. Len(reqs) |->
        reqs[CHOOSE i \in 1 .. Len(reqs) : SortedPosition(reqs, i) = k]]

canCoalesce(a, b) ==
    /\ (IF a.address >= b.address THEN a.address - b.address
                                  ELSE b.address - a.address) <= CoalesceDistance
    /\ a.write = b.write

getRequestId(req) ==
    req.threadId * ThreadIdFactor + req.blockId * BlockIdFactor + req.address

\* The body both loops of processRequests run for one request: commit a
\* write to memory, then queue the request's response.
Respond(mem1, responses, req) ==
    [memory |-> mem1,
     responses |-> MapSet(responses, getRequestId(req),
                          [data |-> IF req.write THEN req.data
                                    ELSE ArrayGet(mem1, req.address),
                           valid |-> TRUE])]

Service(mc, req) ==
    Respond(IF req.write /\ req.hasData
            THEN ArrayStore(mc.memory, req.address, req.data) ELSE mc.memory,
            mc.responses, req)

\* One iteration of the first loop: a request that coalesces with current
\* is serviced at once, any other request becomes current and the old
\* current is queued.  current is a sequence of length 0 (null) or 1.
CoalesceStep(st, req) ==
    IF st.current # << >> /\ canCoalesce(st.current[1], req)
    THEN [st EXCEPT !.mc = Service(st.mc, req)]
    ELSE [st EXCEPT !.current = << req >>, !.coalesced = st.coalesced \o st.current]

\* The iterations for reqs[lo .. hi], in order.
RECURSIVE CoalesceRange(_, _, _, _)
CoalesceRange(st, reqs, lo, hi) ==
    IF lo > hi \/ ~Evaluated(st) THEN st
    ELSE IF lo = hi THEN CoalesceStep(st, reqs[lo])
    ELSE CoalesceRange(CoalesceRange(st, reqs, lo, (lo + hi) \div 2),
                       reqs, (lo + hi) \div 2 + 1, hi)

\* After the loop the last current is queued.
CoalesceEnd(st) == [mc |-> st.mc, coalesced |-> st.coalesced \o st.current]

CoalesceLoop(mc, reqs) ==
    CoalesceEnd(CoalesceRange([mc |-> mc, current |-> << >>, coalesced |-> << >>],
                              reqs, 1, Len(reqs)))

\* The second loop over reqs[lo .. hi], in order.
RECURSIVE ServiceRange(_, _, _, _)
ServiceRange(mc, reqs, lo, hi) ==
    IF lo > hi \/ ~Evaluated(mc) THEN mc
    ELSE IF lo = hi THEN Service(mc, reqs[lo])
    ELSE ServiceRange(ServiceRange(mc, reqs, lo, (lo + hi) \div 2),
                      reqs, (lo + hi) \div 2 + 1, hi)

ServiceAll(mc, reqs) == ServiceRange(mc, reqs, 1, Len(reqs))

\* processRequests() on memory mem, pending requests and response queue:
\* the memory and response queue after it (the pending list is then empty).
ServiceCoalesced(first) == ServiceAll(first.mc, first.coalesced)

processRequests(mem, pending, responses) ==
    ServiceCoalesced(CoalesceLoop([memory |-> mem, responses |-> responses],
                                  SortByAddress(pending)))

(***************************************************************************)
(* Instructions (instruction-set/instructions.ts).  Each operator gives    *)
(* the InstructionResult (nextPC, shouldBranch, access: the memoryAccess   *)
(* as a sequence of length 0 or 1) and the register file, cache and        *)
(* memory after the instruction; threw when the source raises.             *)
(***************************************************************************)
Result(nextPC, shouldBranch, access, regs, c, mem, threw) ==
    [nextPC |-> nextPC, shouldBranch |-> shouldBranch, access |-> access,
     regs |-> regs, cache |-> c, mem |-> mem, threw |-> threw]

executeCONST(ins, thread, regs, c, mem) ==
    Result(thread.pc + 1, FALSE, << >>,
           IF {"rd", "immediate"} \subseteq ins.has
           THEN write(regs, thread.id, ins.rd, ins.immediate) ELSE regs,
           c, mem, FALSE)

executeALUInstruction(ins, thread, regs, c, mem) ==
    Result(thread.pc + 1, FALSE, << >>,
           IF {"rd", "rs1", "rs2"} \subseteq ins.has
           THEN write(regs, thread.id, ins.rd,
                      executeALU(regs, thread.id, ins.opcode, ins.rs1, ins.rs2).result)
           ELSE regs,
           c, mem, FALSE)

\* instruction.immediate || 0
ImmediateOrZero(ins) == IF "immediate" \in ins.has THEN ins.immediate ELSE 0

\* executeLDR after cache.read gave r.
Loaded(ins, thread, regs1, c, mem, address, cacheOn, r) ==
    IF ~cacheOn \/ r.threw
    THEN Result(thread.pc, FALSE, << >>, regs1, c, mem, TRUE)
    ELSE Result(thread.pc + 1, FALSE,
                << [address |-> address, data |-> r.data, hasData |-> TRUE,
                    write |-> FALSE] >>,
                write(regs1, thread.id, ins.rd, r.data), r.cache, r.mem, FALSE)

LoadAt(ins, thread, regs1, c, cacheOn, mem, address) ==
    Loaded(ins, thread, regs1, c, mem, address, cacheOn,
           IF cacheOn THEN CacheRead(c, mem, address) ELSE [threw |-> TRUE])

executeLDR(ins, thread, regs, c, cacheOn, mem) ==
    IF {"rd", "rs1"} \subseteq ins.has
    THEN LoadAt(ins, thread, initializeThread(regs, thread.id), c, cacheOn, mem,
                add(read(regs, thread.id, ins.rs1), ImmediateOrZero(ins)))
    ELSE Result(thread.pc + 1, FALSE, << >>, regs, c, mem, FALSE)

\* executeSTR after cache.write gave w.
Stored(thread, regs1, c, mem, address, data, cacheOn, w) ==
    IF ~cacheOn \/ w.threw
    THEN Result(thread.pc, FALSE, << >>, regs1, c, mem, TRUE)
    ELSE Result(thread.pc + 1, FALSE,
                << [address |-> address, data |-> data, hasData |-> TRUE,
                    write |-> TRUE] >>,
                regs1, w.cache, w.mem, FALSE)

StoreAt(thread, regs1, c, cacheOn, mem, address, data) ==
    Stored(thread, regs1, c, mem, address, data, cacheOn,
           IF cacheOn THEN CacheWrite(c, mem, address, data) ELSE [threw |-> TRUE])

executeSTR(ins, thread, regs, c, cacheOn, mem) ==
    IF {"rs1", "rs2"} \subseteq ins.has
    THEN StoreAt(thread, initializeThread(regs, thread.id), c, cacheOn, mem,
                 add(read(regs, thread.id, ins.rs1), ImmediateOrZero(ins)),
                 read(regs, thread.id, ins.rs2))
    ELSE Result(thread.pc + 1, FALSE, << >>, regs, c, mem, FALSE)

\* A branch decision with the zero tests of BRz and BRnz exchanged.
BranchConditionSwapped(opcode, value) ==
    CASE opcode = "BRz"  -> value # 0
      [] opcode = "BRnz" -> value = 0
      [] opcode = "BRn"  -> value < 0
      [] opcode = "BRp"  -> value > 0
      [] OTHER -> FALSE

\* The branch decision of executeBranch for register value value.
BranchCondition(opcode, value) ==
    LET isZero == value = 0
        isNegative == BitAnd(value, MinInt32) # 0
    IN  CASE opcode = "BRz"  -> isZero
          [] opcode = "BRnz" -> ~isZero
          [] opcode = "BRn"  -> isNegative
          [] opcode = "BRp"  -> ~isNegative /\ ~isZero
          [] OTHER -> FALSE

Branch(ins, thread, regs1, c, mem, shouldBranch) ==
    IF shouldBranch /\ "immediate" \in ins.has
    THEN Result(thread.pc + ins.immediate, TRUE, << >>, regs1, c, mem, FALSE)
    ELSE Result(thread.pc + 1, FALSE, << >>, regs1, c, mem, FALSE)

executeBranch(ins, thread, regs, c, mem) ==
    IF ins.opcode = "BR" THEN Branch(ins, thread, regs, c, mem, TRUE)
    ELSE IF "rs1" \in ins.has
    THEN Branch(ins, thread, initializeThread(regs, thread.id), c, mem,
                BranchCondition(ins.opcode, read(regs, thread.id, ins.rs1)))
    ELSE Branch(ins, thread, regs, c, mem, FALSE)

\* A CMP that keeps the result of the comparison in R15.
executeCMPKeepsFlags(ins, thread, regs, c, mem) ==
    Result(thread.pc + 1, FALSE, << >>,
           write(regs, thread.id, 15,
                 IF read(regs, thread.id, ins.rs1) < read(regs, thread.id, ins.rs2)
                 THEN 1 ELSE 2),
           c, mem, FALSE)

\* compare() only reads the registers; its result is dropped.
executeCMP(ins, thread, regs, c, mem) ==
    Result(thread.pc + 1, FALSE, << >>,
           IF {"rs1", "rs2"} \subseteq ins.has
           THEN initializeThread(regs, thread.id) ELSE regs,
           c, mem, FALSE)

executeRET(ins, thread, regs, c, mem) ==
    Result(thread.pc, TRUE, << >>, regs, c, mem, FALSE)

executeInstruction(ins, thread, regs, c, cacheOn, mem) ==
    CASE ins.opcode = "NOP" -> Result(thread.pc + 1, FALSE, << >>, regs, c, mem, FALSE)
      [] ins.opcode = "CONST" -> executeCONST(ins, thread, regs, c, mem)
      [] ins.opcode \in AluOpcodes -> executeALUInstruction(ins, thread, regs, c, mem)
      [] ins.opcode = "LDR" -> executeLDR(ins, thread, regs, c, cacheOn, mem)
      [] ins.opcode = "STR" -> executeSTR(ins, thread, regs, c, cacheOn, mem)
      [] ins.opcode \in BranchOpcodes -> executeBranch(ins, thread, regs, c, mem)
      [] ins.opcode = "CMP" -> executeCMP(ins, thread, regs, c, mem)
      [] ins.opcode = "RET" -> executeRET(ins, thread, regs, c, mem)
      [] OTHER -> Result(thread.pc + 1, FALSE, << >>, regs, c, mem, FALSE)

(***************************************************************************)
(* ThreadScheduler (core/thread-scheduler.ts).  ths is the sequence of all *)
(* ThreadState objects; a warp lists the positions of its threads in it.   *)
(***************************************************************************)
HasActiveThread(ths, warp) ==
    warp.active /\ \E k \in 1 .. Len(warp.threads) : ths[warp.threads[k]].active

\* getNextWarp(): warp is the position of the warp returned (0 for null),
\* index the round-robin cursor after the call.
RECURSIVE NextWarpFrom(_, _, _, _)
NextWarpFrom(ws, ths, index, attempts) ==
    IF attempts >= Len(ws) THEN [warp |-> 0, index |-> index]
    ELSE IF HasActiveThread(ths, ws[index + 1])
    THEN [warp |-> index + 1, index |-> (index + 1) % Len(ws)]
    ELSE NextWarpFrom(ws, ths, (index + 1) % Len(ws), attempts + 1)

\* A selection that scans from the first warp whatever the cursor is.
getNextWarpFromStart(ws, ths, index) ==
    IF Len(ws) = 0 THEN [warp |-> 0, index |-> index]
    ELSE NextWarpFrom(ws, ths, 0, 0)

\* A selection that leaves the cursor where it was.
getNextWarpKeepsCursor(ws, ths, index) ==
    IF Len(ws) = 0 THEN [warp |-> 0, index |-> index]
    ELSE [warp |-> NextWarpFrom(ws, ths, index, 0).warp, index |-> index]

\* A selection that, finding no warp, leaves the cursor one warp further.
getNextWarpOvershoots(ws, ths, index) ==
    IF Len(ws) = 0 THEN [warp |-> 0, index |-> index]
    ELSE IF NextWarpFrom(ws, ths, index, 0).warp = 0
    THEN [warp |-> 0, index |-> (index + 1) % Len(ws)]
    ELSE NextWarpFrom(ws, ths, index, 0)

getNextWarp(ws, ths, index) ==
    IF Len(ws) = 0 THEN [warp |-> 0, index |-> index]
    ELSE NextWarpFrom(ws, ths, index, 0)

\* isWarpDiverged(warp)
isWarpDiverged(ths, warp) ==
    IF Len(warp.threads) = 0 THEN FALSE
    ELSE \E k \in 1 .. Len(warp.threads) :
             /\ ths[warp.threads[k]].active
             /\ ths[warp.threads[k]].pc # ths[warp.threads[1]].pc

\* deactivateThread(threadId, blockId): the threads after the call.
deactivateThread(ws, ths, threadId, blockId) ==
    [ti \in DOMAIN ths |->
        IF /\ \E w \in DOMAIN ws : \E k \in DOMAIN ws[w].threads : ws[w].threads[k] = ti
           /\ ths[ti].id = threadId
           /\ ths[ti].blockId = blockId
        THEN [ths[ti] EXCEPT !.active = FALSE]
        ELSE ths[ti]]

getActiveThreads(ths, warp) ==
    SelectSeq(warp.threads, LAMBDA ti : ths[ti].active)

\* A completion test that one finished warp satisfies.
isCompleteSomeWarp(ws, ths) ==
    \E w \in 1 .. Len(ws) :
        ~ws[w].active \/ \A k \in 1 .. Len(ws[w].threads) : ~ths[ws[w].threads[k]].active

isComplete(ws, ths) ==
    \A w \in 1 .. Len(ws) :
        ~ws[w].active \/ \A k \in 1 .. Len(ws[w].threads) : ~ths[ws[w].threads[k]].active

\* The warps initializeBlocks builds from blocks, where sizes[b] is the
\* number of threads of block b and the threads of all blocks are numbered
\* 1, 2, ... in block order.
\* A split that puts all the threads of a block into one warp.
SplitBlockWhole(first, count, ths) ==
    IF count <= 0 THEN << >>
    ELSE << [threads |-> [k \in 1 .. count |-> first + k - 1],
             active |-> TRUE,
             pc |-> ths[first].pc] >>

RECURSIVE SplitBlock(_, _, _)
SplitBlock(first, count, ths) ==
    IF count <= 0 THEN << >>
    ELSE LET n == IF count < warpSize THEN count ELSE warpSize
         IN  << [threads |-> [k \in 1 .. n |-> first + k - 1],
                 active |-> TRUE,
                 pc |-> ths[first].pc] >>
             \o SplitBlock(first + n, count - n, ths)

RECURSIVE BuildWarps(_, _, _)
BuildWarps(sizes, first, ths) ==
    IF sizes = << >> THEN << >>
    ELSE SplitBlock(first, Head(sizes), ths)
         \o BuildWarps(Tail(sizes), first + Head(sizes), ths)

(***************************************************************************)
(* ExecutionEngine (execution/execution-engine.ts)                         *)
(***************************************************************************)
DefaultMaxCycles == 1000000

\* config.maxCycles || 1000000
MaxCyclesOf(given) == IF given = 0 THEN DefaultMaxCycles ELSE given

\* instructionMemory[pc]; outside the program the element is undefined,
\* which decode reads as the word 0 (undefined >>> 24 is 0).
Fetch(im, pc) == IF pc >= 0 /\ pc < Len(im) THEN im[pc + 1] ELSE 0

\* The threads of blocks in order, each as << id, blockId >>: blocks[b][k]
\* is the id of thread k of block b, and block ids count from 0.
RECURSIVE Flatten(_, _)
Flatten(blocks, b) ==
    IF b > Len(blocks) THEN << >>
    ELSE [k \in 1 .. Len(blocks[b]) |-> << blocks[b][k], b - 1 >>]
         \o Flatten(blocks, b + 1)

\* The first loop of initializeBlocks: initializeThread for every thread.
InitializeAll(regs, flat) ==
    LET ids == {flat[i][1] : i \in 1 .. Len(flat)}
    IN  [id \in DOMAIN regs \cup ids |->
            IF id \in DOMAIN regs THEN regs[id] ELSE ZeroRegisters]

\* The ThreadState objects of the blocks: each starts at pc 0, active, and
\* initializeBlocks gives it a copy of its registers.
NewThreads(flat, regs) ==
    [ti \in 1 .. Len(flat) |->
        [id |-> flat[ti][1], blockId |-> flat[ti][2], pc |-> 0,
         registers |-> getRegisters(regs, flat[ti][1]),
         sharesRegisters |-> getRegistersShares(regs, flat[ti][1]),
         active |-> TRUE]]

\* The end of one iteration of the loop of executeCycle, after
\* executeInstruction gave r: the PC, the register snapshot, the request.
Executed(S, ti, thread, opcode, r) ==
    IF r.threw
    THEN [S EXCEPT !.regs = r.regs, !.threw = TRUE, !.executed[ti] = opcode]
    ELSE [threads |-> [S.threads EXCEPT
                          ![ti].pc = r.nextPC,
                          ![ti].registers = getRegisters(r.regs, thread.id),
                          ![ti].sharesRegisters =
                              getRegistersShares(r.regs, thread.id)],
          regs |-> initializeThread(r.regs, thread.id),
          cache |-> r.cache,
          mem |-> r.mem,
          pending |-> IF r.access = << >> THEN S.pending
                      ELSE request(S.pending,
                               [address |-> r.access[1].address,
                                data |-> r.access[1].data,
                                hasData |-> r.access[1].hasData,
                                write |-> r.access[1].write,
                                threadId |-> thread.id,
                                blockId |-> thread.blockId]),
          executed |-> [S.executed EXCEPT ![ti] = opcode],
          threw |-> FALSE]

Execute(S, ti, thread, ins, cacheOn) ==
    Executed(S, ti, thread, ins.opcode,
             executeInstruction(ins, thread, S.regs, S.cache, cacheOn, S.mem))

\* An iteration that, when its thread has run past the program, marks every
\* other thread active.
RunThreadWakesOthers(S, ti, im, cacheOn) ==
    IF S.threw THEN S
    ELSE IF S.threads[ti].pc >= Len(im)
    THEN [S EXCEPT !.threads = [tj \in DOMAIN S.threads |->
                                   [S.threads[tj] EXCEPT !.active = (tj # ti)]],
                   !.executed[ti] = "overrun"]
    ELSE Execute(S, ti, S.threads[ti], decode(Fetch(im, S.threads[ti].pc)), cacheOn)

\* One iteration of the loop of executeCycle over the warp's active threads.
RunThread(S, ti, im, cacheOn) ==
    IF S.threw THEN S
    ELSE IF S.threads[ti].pc >= Len(im)
    THEN [S EXCEPT !.threads[ti].active = FALSE, !.executed[ti] = "overrun"]
    ELSE Execute(S, ti, S.threads[ti], decode(Fetch(im, S.threads[ti].pc)), cacheOn)

\* The loop over the active threads tis[lo .. hi], in order.
RECURSIVE RunRange(_, _, _, _, _, _)
RunRange(S, tis, lo, hi, im, cacheOn) ==
    IF S.threw \/ lo > hi THEN S
    ELSE IF lo = hi THEN RunThread(S, tis[lo], im, cacheOn)
    ELSE RunRange(RunRange(S, tis, lo, (lo + hi) \div 2, im, cacheOn),
                  tis, (lo + hi) \div 2 + 1, hi, im, cacheOn)

RunThreads(S, tis, im, cacheOn) == RunRange(S, tis, 1, Len(tis), im, cacheOn)

\* A cycle limit tested one cycle late.
MaxCyclesPassed(c, m) == c > m

\* cycle >= maxCycles
MaxCyclesReached(c, m) == c >= m

\* getState(): the GPUState returned; threads and blocks are the two local
\* arrays the method creates and never fills.
getState(mem, cyc) ==
    [memory |-> mem, cache |-> << >>, threads |-> << >>, blocks |-> << >>,
     cycle |-> cyc]

NoneExecuted(ths) == [ti \in 1 .. Len(ths) |-> "none"]

\* What a completed run() leaves, with the inputs it was started from.
RunResult(im, ths, mem, regs, cyc) ==
    [program |-> im,
     shape |-> [ti \in 1 .. Len(ths) |-> << ths[ti].id, ths[ti].blockId >>],
     memory |-> mem,
     registers |-> regs,
     snapshots |-> [ti \in 1 .. Len(ths) |-> ths[ti].registers],
     cycle |-> cyc]

(***************************************************************************)
(* Inputs: programs as encoded instruction words, block configurations,    *)
(* engine configurations.                                                  *)
(***************************************************************************)
MaxCyclesCap == 10
MaxResets == 1

\* The instruction word with opcode byte op, fields rd and rs1 and low 16
\* bits low (rs2 in bits 15-12, or an immediate).
Word(op, rd, rs1, low) == op * 16777216 + rd * 1048576 + rs1 * Half + (low % Half)

CONST(rd, imm) == Word(1, rd, 0, imm)
ADD(rd, rs1, rs2) == Word(2, rd, rs1, rs2 * 4096)
LDR(rd, rs1, imm) == Word(9, rd, rs1, imm)
\* STR [rs1 + imm], rs2 has no field of the decoder's STR format for rs2;
\* the register to store goes where the format has rd.
STR(rs1, imm, rs2) == Word(10, rs2, rs1, imm)
BR(imm) == Word(11, 0, 0, imm)
BRz(rs1, imm) == Word(12, 0, rs1, imm)
BRnz(rs1, imm) == Word(13, 0, rs1, imm)
BRn(rs1, imm) == Word(14, 0, rs1, imm)
BRp(rs1, imm) == Word(15, 0, rs1, imm)
RET == Word(17, 0, 0, 0)

ProgConstAddRet == << CONST(0, 5), CONST(1, 7), ADD(2, 0, 1), RET >>
ProgStoreLoad == << CONST(1, 16), CONST(2, 42), STR(1, 0, 2), LDR(0, 1, 0) >>
ProgLoop == << BR(-1) >>
ProgBranchZero == << CONST(0, 0), BRz(0, 2), CONST(1, 99), CONST(1, 1) >>
ProgCount == << CONST(1, 1), ADD(0, 0, 1) >>
ProgCountLoop == << CONST(1, 1), ADD(0, 0, 1), BR(-1) >>
ProgBranches ==
    << CONST(0, -3), BRn(0, 2), CONST(5, 99), BRp(0, 2), BRnz(0, 2), CONST(6, 99),
       BRz(0, 2), CONST(0, 4), BRp(0, 2), CONST(7, 99), BRn(0, 3), BRnz(1, 2) >>

\* R1 grows by 4 at pc 1; the load at pc 2 reads the address R1 - 8.
ProgSharedLoad == << CONST(2, 4), ADD(1, 1, 2), LDR(3, 1, -8) >>

Programs ==
    { ProgConstAddRet, ProgStoreLoad, ProgLoop, ProgBranchZero, ProgCount,
      ProgCountLoop, ProgBranches, ProgSharedLoad }

\* Block configurations: the thread ids of each block.
Ids(n) == [k \in 1 .. n |-> k - 1]
OneThread == << Ids(1) >>
TwoBlocksOneThread == << Ids(1), Ids(1) >>
OneBlockTwoWarps == << Ids(2 * warpSize) >>
TwoBlocksTwoWarps == << Ids(warpSize), Ids(warpSize) >>
OneBlockPartialWarp == << Ids(warpSize + 1) >>

TwoThreadsThenOne == << Ids(2), Ids(1) >>
ThreeBlocksOneThread == << Ids(1), Ids(1), Ids(1) >>

BlockConfigs ==
    { OneThread, TwoBlocksOneThread, OneBlockTwoWarps, TwoBlocksTwoWarps,
      OneBlockPartialWarp, TwoThreadsThenOne, ThreeBlocksOneThread }

EngineConfig ==
    [memory |-> [globalMemorySize |-> 20, cacheSize |-> 2, lineSize |-> 4, latency |-> 1],
     enableCache |-> TRUE]

(***************************************************************************)
(* The engine's operations                                                 *)
(***************************************************************************)
Init ==
    /\ instructionMemory = << >>
    /\ config = EngineConfig
    /\ maxCycles \in {MaxCyclesOf(MaxCyclesCap - 1), MaxCyclesOf(MaxCyclesCap)}
    /\ memory = NewArray(config.memory.globalMemorySize)
    /\ cycle = 0
    /\ registers = << >>
    /\ threads = << >>
    /\ warps = << >>
    /\ currentWarpIndex = 0
    /\ schedCycle = 0
    /\ cache = NewCache(config.memory)
    /\ mcMemory = NewArray(config.memory.globalMemorySize)
    /\ pendingRequests = << >>
    /\ responseQueue = << >>
    /\ lastReturn = "none"
    /\ executed = << >>
    /\ firstResult = << >>
    /\ resets = 0
    /\ opCount = 0
    /\ lastAccess = << >>
    /\ written = << >>
    /\ reference = << >>

\* loadInstructions(instructions): the program is loaded once, before the
\* blocks are registered; reset() keeps it.
LoadInstructions ==
    /\ warps = << >>
    /\ instructionMemory = << >>
    /\ \E p \in Programs : instructionMemory' = p
    /\ UNCHANGED << memory, cycle, maxCycles, config, registers, threads, warps,
                    currentWarpIndex, schedCycle, cache, mcMemory, pendingRequests,
                    responseQueue, lastReturn, executed, firstResult, resets,
                    opCount, lastAccess, written, reference >>

\* initializeBlocks(blocks) with fresh ThreadState objects, after
\* construction or after reset().
InitializeBlocks ==
    /\ warps = << >>
    /\ \E blocks \in BlockConfigs :
         LET flat == Flatten(blocks, 1)
             regs == InitializeAll(registers, flat)
             ths == NewThreads(flat, regs)
         IN  /\ registers' = regs
             /\ threads' = ths
             /\ warps' = BuildWarps([b \in 1 .. Len(blocks) |-> Len(blocks[b])], 1, ths)
             /\ executed' = NoneExecuted(ths)
    /\ currentWarpIndex' = 0
    /\ lastReturn' = "none"
    /\ UNCHANGED << instructionMemory, memory, cycle, maxCycles, config, schedCycle,
                    cache, mcMemory, pendingRequests, responseQueue, firstResult,
                    resets, opCount, lastAccess, written, reference >>

\* The requests of the cycle are serviced: processRequests() gave mc.
Serviced(mc) ==
    /\ mcMemory' = mc.memory
    /\ responseQueue' = mc.responses
    /\ pendingRequests' = << >>

\* The first completed run of the engine is kept, with the number of
\* reset() calls before it.
RecordFirst(result) ==
    firstResult' = IF firstResult = << >>
                   THEN << [result |-> result, resets |-> resets] >>
                   ELSE firstResult

\* executeCycle() from the loop on: S is the state the loop left.
CycleDone(S) ==
    /\ threads' = S.threads
    /\ registers' = S.regs
    /\ cache' = S.cache
    /\ memory' = S.mem
    /\ executed' = S.executed
    /\ IF S.threw
       THEN /\ lastReturn' = "threw"
            /\ pendingRequests' = S.pending
            /\ UNCHANGED << mcMemory, responseQueue, cycle, schedCycle, firstResult >>
       ELSE /\ Serviced(processRequests(mcMemory, S.pending, responseQueue))
            /\ cycle' = cycle + 1
            /\ schedCycle' = schedCycle + 1
            /\ lastReturn' = IF isComplete(warps, S.threads) THEN "false" ELSE "true"
            /\ IF isComplete(warps, S.threads)
               THEN RecordFirst(RunResult(instructionMemory, S.threads, S.mem, S.regs,
                                          cycle + 1))
               ELSE UNCHANGED firstResult

\* executeCycle() after getNextWarp() gave next.
CycleOf(next) ==
    IF next.warp = 0
    THEN /\ lastReturn' = "false"
         /\ executed' = NoneExecuted(threads)
         /\ currentWarpIndex' = next.index
         /\ RecordFirst(RunResult(instructionMemory, threads, memory, registers, cycle))
         /\ UNCHANGED << instructionMemory, memory, cycle, maxCycles, config,
                         registers, threads, warps, schedCycle, cache, mcMemory,
                         pendingRequests, responseQueue >>
    ELSE /\ currentWarpIndex' = next.index
         /\ CycleDone(RunThreads(
                [threads |-> threads, regs |-> registers, cache |-> cache,
                 mem |-> memory, pending |-> pendingRequests,
                 executed |-> NoneExecuted(threads), threw |-> FALSE],
                getActiveThreads(threads, warps[next.warp]),
                instructionMemory, config.enableCache))
         /\ UNCHANGED << instructionMemory, maxCycles, config, warps >>

\* executeCycle(): the whole call.
ExecuteCycle ==
    /\ warps # << >>
    /\ IF MaxCyclesReached(cycle, maxCycles)
       THEN /\ lastReturn' = "false"
            /\ executed' = NoneExecuted(threads)
            /\ RecordFirst(RunResult(instructionMemory, threads, memory, registers, cycle))
            /\ UNCHANGED engineVars
       ELSE CycleOf(getNextWarp(warps, threads, currentWarpIndex))
    /\ UNCHANGED << resets, opCount, lastAccess, written, reference >>

\* reset()
Reset ==
    /\ resets < MaxResets
    /\ resets' = resets + 1
    /\ cycle' = 0
    /\ warps' = << >>
    /\ currentWarpIndex' = 0
    /\ schedCycle' = 0
    /\ registers' = clearAll(registers)
    /\ memory' = ArrayFill(memory, 0)
    /\ cache' = IF config.enableCache THEN resetStats(cache) ELSE cache
    /\ threads' = << >>
    /\ executed' = << >>
    /\ lastReturn' = "none"
    /\ UNCHANGED << instructionMemory, maxCycles, config, mcMemory, pendingRequests,
                    responseQueue, firstResult, opCount, lastAccess, written,
                    reference >>

Next == LoadInstructions \/ InitializeBlocks \/ ExecuteCycle \/ Reset

Spec == Init /\ [][Next]_vars

(***************************************************************************)
(* The engine with input data.  getState() returns the engine's own memory *)
(* array (memory: this.memory), which is the one way a caller has to put   *)
(* data into global memory; the caller stores one word through it before   *)
(* the first blocks are registered.                                        *)
(***************************************************************************)
StateAddresses == {0, 16}
StateData == {42}

\* getState().memory[address] = data
WriteStateMemory ==
    /\ warps = << >>
    /\ resets = 0
    /\ memory = NewArray(config.memory.globalMemorySize)
    /\ \E address \in StateAddresses, data \in StateData :
         memory' = ArrayStore(getState(memory, cycle).memory, address, data)
    /\ UNCHANGED << instructionMemory, cycle, maxCycles, config, registers, threads,
                    warps, currentWarpIndex, schedCycle, cache, mcMemory,
                    pendingRequests, responseQueue, lastReturn, executed,
                    firstResult, resets, opCount, lastAccess, written, reference >>

NextData == Next \/ WriteStateMemory

(***************************************************************************)
(* The engine constructed with enableCache: false: this.cache is null.     *)
(***************************************************************************)
InitNoCache ==
    /\ instructionMemory = << >>
    /\ config = [EngineConfig EXCEPT !.enableCache = FALSE]
    /\ maxCycles \in {MaxCyclesOf(MaxCyclesCap - 1), MaxCyclesOf(MaxCyclesCap)}
    /\ memory = NewArray(config.memory.globalMemorySize)
    /\ cycle = 0
    /\ registers = << >>
    /\ threads = << >>
    /\ warps = << >>
    /\ currentWarpIndex = 0
    /\ schedCycle = 0
    /\ cache = << >>
    /\ mcMemory = NewArray(config.memory.globalMemorySize)
    /\ pendingRequests = << >>
    /\ responseQueue = << >>
    /\ lastReturn = "none"
    /\ executed = << >>
    /\ firstResult = << >>
    /\ resets = 0
    /\ opCount = 0
    /\ lastAccess = << >>
    /\ written = << >>
    /\ reference = << >>

SpecNoCache == InitNoCache /\ [][Next]_vars

SpecData == Init /\ [][NextData]_vars

(***************************************************************************)
(* The cache on its own: Cache.read and Cache.write against one memory     *)
(* array.  written maps each address to the value of the last write to it. *)
(***************************************************************************)
MaxCacheOps == 3
CacheMemoryWords == 16

CacheConfigs ==
    { [globalMemorySize |-> CacheMemoryWords, cacheSize |-> 1, lineSize |-> 4, latency |-> 1],
      [globalMemorySize |-> CacheMemoryWords, cacheSize |-> 2, lineSize |-> 4, latency |-> 1],
      [globalMemorySize |-> CacheMemoryWords, cacheSize |-> 2, lineSize |-> 8, latency |-> 1] }

CacheAddresses == {0, 4, 5, 8, 12}
CacheData == {1, 2}

\* The parts of the engine that the component specifications leave alone.
EngineIdle ==
    /\ instructionMemory = << >>
    /\ maxCycles = MaxCyclesOf(0)
    /\ cycle = 0
    /\ registers = << >>
    /\ threads = << >>
    /\ warps = << >>
    /\ currentWarpIndex = 0
    /\ schedCycle = 0
    /\ lastReturn = "none"
    /\ executed = << >>
    /\ firstResult = << >>
    /\ resets = 0

InitCache ==
    /\ EngineIdle
    /\ \E cfg \in CacheConfigs :
         /\ config = [memory |-> cfg, enableCache |-> TRUE]
         /\ cache = NewCache(cfg)
         /\ memory = NewArray(cfg.globalMemorySize)
         /\ mcMemory = NewArray(cfg.globalMemorySize)
    /\ pendingRequests = << >>
    /\ responseQueue = << >>
    /\ opCount = 0
    /\ lastAccess = [kind |-> "none", address |-> 0, data |-> 0, threw |-> FALSE]
    /\ written = << >>
    /\ reference = << >>

\* cache.read(address, memory) gave r.
ReadDone(address, r) ==
    /\ cache' = r.cache
    /\ memory' = r.mem
    /\ lastAccess' = [kind |-> "read", address |-> address, data |-> r.data,
                      threw |-> r.threw]

CacheReadOp ==
    /\ opCount < MaxCacheOps
    /\ opCount' = opCount + 1
    /\ \E address \in CacheAddresses : ReadDone(address, CacheRead(cache, memory, address))
    /\ UNCHANGED << instructionMemory, cycle, maxCycles, config, registers, threads,
                    warps, currentWarpIndex, schedCycle, mcMemory, pendingRequests,
                    responseQueue, lastReturn, executed, firstResult, resets, written,
                    reference >>

\* cache.write(address, data, memory) gave w.
WriteDone(address, data, w) ==
    /\ cache' = w.cache
    /\ memory' = w.mem
    /\ lastAccess' = [kind |-> "write", address |-> address, data |-> data,
                      threw |-> w.threw]
    /\ written' = MapSet(written, address, data)

CacheWriteOp ==
    /\ opCount < MaxCacheOps
    /\ opCount' = opCount + 1
    /\ \E address \in CacheAddresses, data \in CacheData :
         WriteDone(address, data, CacheWrite(cache, memory, address, data))
    /\ UNCHANGED << instructionMemory, cycle, maxCycles, config, registers, threads,
                    warps, currentWarpIndex, schedCycle, mcMemory, pendingRequests,
                    responseQueue, lastReturn, executed, firstResult, resets,
                    reference >>

\* cache.flush(memory) gave f.
FlushDone(f) ==
    /\ cache' = f.cache
    /\ memory' = f.mem
    /\ lastAccess' = [kind |-> "flush", address |-> 0, data |-> 0, threw |-> FALSE]

CacheFlushOp ==
    /\ opCount < MaxCacheOps
    /\ opCount' = opCount + 1
    /\ FlushDone(flush(cache, memory))
    /\ UNCHANGED << instructionMemory, cycle, maxCycles, config, registers, threads,
                    warps, currentWarpIndex, schedCycle, mcMemory, pendingRequests,
                    responseQueue, lastReturn, executed, firstResult, resets, written,
                    reference >>

NextCache == CacheReadOp \/ CacheWriteOp \/ CacheFlushOp

SpecCache == InitCache /\ [][NextCache]_vars

(***************************************************************************)
(* The memory controller on its own: request and processRequests.          *)
(* reference is what servicing the batch one request at a time, in         *)
(* address-sorted order and without merging, leaves.                       *)
(***************************************************************************)
MaxControllerOps == 3
ControllerMemoryWords == 8

\* Request addresses: three inside the memory and one beyond its end.
RequestAddresses == {0, 1, 6, ControllerMemoryWords + 1}
RequestData == {1, 2}
RequestThreads == {0, 1}

InitMC ==
    /\ EngineIdle
    /\ config = [memory |-> [globalMemorySize |-> ControllerMemoryWords, cacheSize |-> 1,
                             lineSize |-> 4, latency |-> 1],
                 enableCache |-> FALSE]
    /\ cache = NewCache(config.memory)
    /\ memory = NewArray(config.memory.globalMemorySize)
    /\ mcMemory = NewArray(config.memory.globalMemorySize)
    /\ pendingRequests = << >>
    /\ responseQueue = << >>
    /\ opCount = 0
    /\ lastAccess = << >>
    /\ written = << >>
    /\ reference = << >>

\* request(req)
RequestOp ==
    /\ opCount < MaxControllerOps
    /\ opCount' = opCount + 1
    /\ \E address \in RequestAddresses, isWrite \in BOOLEAN, data \in RequestData,
          threadId \in RequestThreads :
         /\ ~isWrite => data = 1
         /\ pendingRequests' =
                request(pendingRequests,
                        [address |-> address, data |-> IF isWrite THEN data ELSE 0,
                         hasData |-> isWrite, write |-> isWrite, threadId |-> threadId,
                         blockId |-> 0])
    /\ UNCHANGED << instructionMemory, memory, cycle, maxCycles, config, registers,
                    threads, warps, currentWarpIndex, schedCycle, cache, mcMemory,
                    responseQueue, lastReturn, executed, firstResult, resets,
                    lastAccess, written, reference >>

\* processRequests()
ProcessRequestsOp ==
    /\ opCount < MaxControllerOps
    /\ opCount' = opCount + 1
    /\ Serviced(processRequests(mcMemory, pendingRequests, responseQueue))
    /\ reference' = << ServiceAll([memory |-> mcMemory, responses |-> responseQueue],
                                  SortByAddress(pendingRequests)) >>
    /\ lastAccess' = pendingRequests
    /\ UNCHANGED << instructionMemory, memory, cycle, maxCycles, config, registers,
                    threads, warps, currentWarpIndex, schedCycle, cache, lastReturn,
                    executed, firstResult, resets, written >>

NextMC == RequestOp \/ ProcessRequestsOp

SpecMC == InitMC /\ [][NextMC]_vars

(***************************************************************************)
(* The decoder on its own: decode applied to one instruction word.         *)
(***************************************************************************)
\* The memory side of the engine as its constructor leaves it.
MemoryIdle ==
    /\ config = EngineConfig
    /\ cache = NewCache(config.memory)
    /\ memory = NewArray(config.memory.globalMemorySize)
    /\ mcMemory = NewArray(config.memory.globalMemorySize)
    /\ pendingRequests = << >>
    /\ responseQueue = << >>
    /\ written = << >>
    /\ reference = << >>

\* Bits 23-0 of the words decoded: all clear, all set, mixed, bit 23 only.
DecodeFields == {0, 16777215, 1193046, 8388608, 32768, 32767, 11259375}

\* The word with top byte byte and bits 23-0 low.
WordOf(byte, low) == FromHalves(byte * 256 + (low \div Half), low % Half)

InitDecode ==
    /\ EngineIdle
    /\ MemoryIdle
    /\ opCount = 0
    /\ \E byte \in 0 .. 255, low \in DecodeFields :
         lastAccess = [kind |-> "word", byte |-> byte, low |-> low,
                       word |-> WordOf(byte, low)]

\* decode(instruction)
DecodeOp ==
    /\ lastAccess.kind = "word"
    /\ lastAccess' = [kind |-> "decode", byte |-> lastAccess.byte,
                      low |-> lastAccess.low, word |-> lastAccess.word,
                      ins |-> decode(lastAccess.word)]
    /\ UNCHANGED << engineVars, lastReturn, executed, firstResult, resets, opCount,
                    written, reference >>

NextDecode == DecodeOp

SpecDecode == InitDecode /\ [][NextDecode]_vars

(***************************************************************************)
(* The register file on its own: read and write, for threads that the      *)
(* file may not have seen yet and register indices on both sides of        *)
(* [0, 16).                                                                *)
(***************************************************************************)
MaxRegisterOps == 3

RegThreads == {0, 1}
RegIndices == {-1, 0, 15, 16}
RegValues == {7, -1}

\* The engine without program and threads, around a new RegisterFile.
InitRegs ==
    /\ EngineIdle
    /\ MemoryIdle
    /\ opCount = 0
    /\ lastAccess = [kind |-> "none", threadId |-> 0, reg |-> 0, value |-> 0]

\* registerFile.read(threadId, reg)
RegReadOp ==
    /\ opCount < MaxRegisterOps
    /\ opCount' = opCount + 1
    /\ \E threadId \in RegThreads, reg \in RegIndices :
         /\ lastAccess' = [kind |-> "read", threadId |-> threadId, reg |-> reg,
                           value |-> read(registers, threadId, reg)]
         /\ registers' = initializeThread(registers, threadId)
    /\ UNCHANGED << instructionMemory, memory, cycle, maxCycles, config, threads, warps,
                    currentWarpIndex, schedCycle, cache, mcMemory, pendingRequests,
                    responseQueue, lastReturn, executed, firstResult, resets, written,
                    reference >>

\* registerFile.write(threadId, reg, value)
RegWriteOp ==
    /\ opCount < MaxRegisterOps
    /\ opCount' = opCount + 1
    /\ \E threadId \in RegThreads, reg \in RegIndices, value \in RegValues :
         /\ lastAccess' = [kind |-> "write", threadId |-> threadId, reg |-> reg,
                           value |-> value]
         /\ registers' = write(registers, threadId, reg, value)
    /\ UNCHANGED << instructionMemory, memory, cycle, maxCycles, config, threads, warps,
                    currentWarpIndex, schedCycle, cache, mcMemory, pendingRequests,
                    responseQueue, lastReturn, executed, firstResult, resets, written,
                    reference >>

NextRegs == RegReadOp \/ RegWriteOp

SpecRegs == InitRegs /\ [][NextRegs]_vars

(***************************************************************************)
(* The execution unit on its own: one thread whose R0 and R1 hold the      *)
(* operands, and one instruction OP R2, R0, R1.  The operation is applied  *)
(* through ExecutionUnit.executeALU, which returns the flags, and through  *)
(* one iteration of the loop of executeCycle, which writes R2 and moves    *)
(* the PC.                                                                 *)
(***************************************************************************)
\* Operand words: small ones of both signs and the ends of the signed range.
Operands == {0, 1, 2, 7, -1, -7, -(MinInt32 + 1), MinInt32, MinInt32 + 1}

\* The opcode bytes of ADD, SUB, DIV, AND, OR, XOR and CMP.
UnitOpcodeBytes == {2, 3, 5, 6, 7, 8, 16}

InitALU ==
    /\ MemoryIdle
    /\ maxCycles = MaxCyclesOf(0)
    /\ cycle = 0
    /\ warps = << >>
    /\ currentWarpIndex = 0
    /\ schedCycle = 0
    /\ lastReturn = "none"
    /\ firstResult = << >>
    /\ resets = 0
    /\ opCount = 0
    /\ \E byte \in UnitOpcodeBytes : instructionMemory = << Word(byte, 2, 0, 4096) >>
    /\ \E a \in Operands, b \in Operands :
         registers = write(write(<< >>, 0, 0, a), 0, 1, b)
    /\ threads = NewThreads(<< << 0, 0 >> >>, registers)
    /\ executed = NoneExecuted(threads)
    /\ lastAccess = [kind |-> "none"]

\* executionUnit.executeALU(0, op, 0, 1) for the opcode of the instruction.
AluOp ==
    /\ lastAccess.kind = "none"
    /\ getOpcode(instructionMemory[1]) \in AluOpcodes
    /\ lastAccess' = [kind |-> "alu",
                      op |-> getOpcode(instructionMemory[1]),
                      a |-> read(registers, 0, 0),
                      b |-> read(registers, 0, 1),
                      out |-> executeALU(registers, 0, getOpcode(instructionMemory[1]),
                                         0, 1)]
    /\ UNCHANGED << engineVars, lastReturn, executed, firstResult, resets, opCount,
                    written, reference >>

\* The loop of executeCycle left S.
UnitDone(S) ==
    /\ threads' = S.threads
    /\ registers' = S.regs
    /\ cache' = S.cache
    /\ memory' = S.mem
    /\ pendingRequests' = S.pending
    /\ executed' = S.executed
    /\ lastReturn' = IF S.threw THEN "threw" ELSE "none"

\* One iteration of the loop of executeCycle for the thread, at PC 0.
ExecuteOp ==
    /\ threads[1].pc = 0
    /\ UnitDone(RunThread([threads |-> threads, regs |-> registers, cache |-> cache,
                           mem |-> memory, pending |-> pendingRequests,
                           executed |-> executed, threw |-> FALSE],
                          1, instructionMemory, config.enableCache))
    /\ UNCHANGED << instructionMemory, cycle, maxCycles, config, warps, currentWarpIndex,
                    schedCycle, mcMemory, responseQueue, firstResult, resets, opCount,
                    lastAccess, written, reference >>

NextALU == AluOp \/ ExecuteOp

SpecALU == InitALU /\ [][NextALU]_vars

(***************************************************************************)
(* The scheduler on its own: initializeBlocks with ThreadState objects     *)
(* whose PC and active flag the caller chose, then getNextWarp,            *)
(* deactivateThread and isWarpDiverged in any order.                       *)
(***************************************************************************)
MaxSchedulerOps == 3

\* Three threads as three blocks of one, one block of three, and a block
\* of two with a block of one.
SchedulerBlocks == { << Ids(1), Ids(1), Ids(1) >>, << Ids(3) >>, << Ids(2), Ids(1) >> }
SchedulerPCs == {0, 1}

InitSched ==
    /\ EngineIdle
    /\ MemoryIdle
    /\ opCount = 0
    /\ lastAccess = [kind |-> "none"]

\* The ThreadState objects of the flattened blocks with the given PCs and
\* active flags.
GivenThreads(flat, pcs, act) ==
    [ti \in 1 .. Len(flat) |->
        [id |-> flat[ti][1], blockId |-> flat[ti][2], pc |-> pcs[ti],
         registers |-> ZeroRegisters, sharesRegisters |-> FALSE,
         active |-> act[ti]]]

\* threadScheduler.initializeBlocks(blocks) with the threads ths.
SchedulerBuilt(blocks, ths) ==
    /\ threads' = ths
    /\ warps' = BuildWarps([b \in 1 .. Len(blocks) |-> Len(blocks[b])], 1, ths)
    /\ currentWarpIndex' = 0

InitializeSchedulerOp ==
    /\ warps = << >>
    /\ \E blocks \in SchedulerBlocks, pcs \in [1 .. 3 -> SchedulerPCs],
          act \in [1 .. 3 -> BOOLEAN] :
         SchedulerBuilt(blocks, GivenThreads(Flatten(blocks, 1), pcs, act))
    /\ UNCHANGED << instructionMemory, memory, cycle, maxCycles, config, registers,
                    schedCycle, cache, mcMemory, pendingRequests, responseQueue,
                    lastReturn, executed, firstResult, resets, opCount, lastAccess,
                    written, reference >>

\* getNextWarp() gave next.
NextWarpGiven(next) ==
    /\ currentWarpIndex' = next.index
    /\ lastAccess' = [kind |-> "next", warp |-> next.warp]

GetNextWarpOp ==
    /\ warps # << >>
    /\ opCount < MaxSchedulerOps
    /\ opCount' = opCount + 1
    /\ NextWarpGiven(getNextWarp(warps, threads, currentWarpIndex))
    /\ UNCHANGED << instructionMemory, memory, cycle, maxCycles, config, registers,
                    threads, warps, schedCycle, cache, mcMemory, pendingRequests,
                    responseQueue, lastReturn, executed, firstResult, resets, written,
                    reference >>

DeactivateThreadOp ==
    /\ warps # << >>
    /\ opCount < MaxSchedulerOps
    /\ opCount' = opCount + 1
    /\ \E ti \in DOMAIN threads :
         /\ threads' = deactivateThread(warps, threads, threads[ti].id,
                                        threads[ti].blockId)
         /\ lastAccess' = [kind |-> "deactivate", thread |-> ti]
    /\ UNCHANGED << instructionMemory, memory, cycle, maxCycles, config, registers,
                    warps, currentWarpIndex, schedCycle, cache, mcMemory,
                    pendingRequests, responseQueue, lastReturn, executed, firstResult,
                    resets, written, reference >>

IsWarpDivergedOp ==
    /\ opCount < MaxSchedulerOps
    /\ opCount' = opCount + 1
    /\ \E w \in DOMAIN warps :
         lastAccess' = [kind |-> "diverged", warp |-> w,
                        result |-> isWarpDiverged(threads, warps[w])]
    /\ UNCHANGED << engineVars, lastReturn, executed, firstResult, resets, written,
                    reference >>

NextSched ==
    InitializeSchedulerOp \/ GetNextWarpOp \/ DeactivateThreadOp \/ IsWarpDivergedOp

SpecSched == InitSched /\ [][NextSched]_vars

(***************************************************************************)
(* Properties of the engine (Spec)                                         *)
(***************************************************************************)
\* run() has returned: the last executeCycle() returned false.
Halted == lastReturn = "false"

Shape(ths) == [ti \in 1 .. Len(ths) |-> << ths[ti].id, ths[ti].blockId >>]

\* C1: a thread that executes RET in a cycle is inactive at the end of that
\* cycle (and so is never fetched or executed again).
C1_RetDeactivates ==
    \A ti \in DOMAIN executed : executed[ti] = "RET" => ~threads[ti].active

\* C2: one thread running CONST R1,#16; CONST R2,#42; STR [R1+0],R2;
\* LDR R0,[R1+0]: global memory word 16 is 42 right after the cycle that
\* executes the STR, and R0 is 42 after the LDR.
C2_StoreThenLoad ==
    (instructionMemory = ProgStoreLoad /\ Len(threads) = 1) =>
        /\ executed[1] = "STR" => ArrayGet(memory, 16) = 42
        /\ executed[1] = "LDR" => read(registers, threads[1].id, 0) = 42

\* C5: the cycle counter never exceeds maxCycles, and a run of BR #-1 ends
\* with the counter equal to maxCycles, every thread active, nothing raised.
C5_CycleLimit ==
    /\ cycle <= maxCycles
    /\ (instructionMemory = ProgLoop /\ threads # << >>) => lastReturn # "threw"
    /\ (instructionMemory = ProgLoop /\ threads # << >> /\ Halted) =>
           /\ cycle = maxCycles
           /\ \A ti \in DOMAIN threads : threads[ti].active

C5_Witness ==
    /\ Halted
    /\ instructionMemory = ProgLoop
    /\ Len(threads) = 2 * warpSize
    /\ cycle = maxCycles
    /\ \A ti \in DOMAIN threads : threads[ti].active

C7_RegisterIsolation ==
    [][cycle' = cycle + 1 =>
          \A tj \in DOMAIN threads :
              executed'[tj] = "none" =>
                  getRegisters(registers', threads[tj].id)
                      = getRegisters(registers, threads[tj].id)]_vars

\* C8: 64 threads in two full warps running one program from the same
\* initial registers all end the run with the same register values.
C8_SameFinalRegisters ==
    (Halted /\ Len(threads) = 2 * warpSize) =>
        \A ti, tj \in DOMAIN threads : threads[ti].registers = threads[tj].registers

\* C9: CONST R0,#5; CONST R1,#7; ADD R2,R0,R1; RET on one thread ends with
\* R2 = 12 in the thread's registers.
C9_ConstAdd ==
    (Halted /\ instructionMemory = ProgConstAddRet /\ Len(threads) = 1) =>
        /\ read(registers, threads[1].id, 2) = 12
        /\ threads[1].registers[2] = 12

C9_Witness ==
    /\ Halted
    /\ instructionMemory = ProgConstAddRet
    /\ Len(threads) = 1
    /\ threads[1].registers[0] = 5
    /\ threads[1].registers[1] = 7
    /\ threads[1].registers[2] = 12

\* The branch is taken: BRz on zero, BRnz on non-zero, BRn on bit 31 set,
\* BRp on non-zero with bit 31 clear, BR always.  A register holds its 32
\* bits as a signed number, so bit 31 is the sign.
Taken(opcode, value) ==
    \/ opcode = "BR"
    \/ opcode = "BRz" /\ value = 0
    \/ opcode = "BRnz" /\ value # 0
    \/ opcode = "BRn" /\ value < 0
    \/ opcode = "BRp" /\ value > 0

BranchedAsStated(thread, ins, value, nextPC) ==
    nextPC = IF Taken(ins.opcode, value) THEN thread.pc + ins.immediate
             ELSE thread.pc + 1

\* C10: a thread that executes a branch in a cycle goes to PC + immediate
\* when the branch is taken by the value of its register (BRz zero, BRnz
\* non-zero, BRn bit 31 set, BRp non-zero and bit 31 clear, BR always) and
\* to PC + 1 when not; CONST R0,#0; BRz,#2; CONST R1,#99; CONST R1,#1 ends
\* with R1 = 1.
C10_Branches ==
    [][/\ cycle' = cycle + 1 =>
            \A ti \in DOMAIN threads :
                executed'[ti] \in BranchOpcodes =>
                    BranchedAsStated(threads[ti],
                        decode(Fetch(instructionMemory, threads[ti].pc)),
                        read(registers, threads[ti].id,
                             decode(Fetch(instructionMemory, threads[ti].pc)).rs1),
                        threads'[ti].pc)
       /\ (lastReturn' = "false" /\ instructionMemory' = ProgBranchZero) =>
            \A ti \in DOMAIN threads' :
                /\ read(registers', threads'[ti].id, 1) = 1
                /\ threads'[ti].registers[1] = 1]_vars

C10_Witness ==
    /\ Halted
    /\ instructionMemory = ProgBranches
    /\ Len(threads) = 1
    /\ ~threads[1].active
    /\ threads[1].registers[0] = 4
    /\ threads[1].registers[5] = 0
    /\ threads[1].registers[6] = 0
    /\ threads[1].registers[7] = 0

NoActive(ths) == \A ti \in DOMAIN ths : ~ths[ti].active

\* C18: executeCycle returns false exactly when, on entry, the cycle counter
\* is at least maxCycles or no warp has an active thread, or when after the
\* cycle every thread of every warp is inactive; otherwise it returns true.
C18_ReturnValue ==
    [][lastReturn' # "none" =>
        /\ lastReturn' \in {"true", "false"}
        /\ lastReturn' = "false" <=>
              \/ cycle >= maxCycles
              \/ NoActive(threads)
              \/ NoActive(threads')]_vars

\* An executeCycle below the cycle limit returned false because the cycle
\* deactivated the last active threads, one warp having finished before.
C18_Witness ==
    /\ lastReturn = "false"
    /\ cycle < maxCycles
    /\ Len(warps) = 2
    /\ NoActive(threads)
    /\ \E ti \in DOMAIN executed : executed[ti] = "overrun"

\* C20: between calls of executeCycle (here: whenever the last call on the
\* engine was an executeCycle that returned), each thread either is inactive
\* or has a PC that is a valid index into instruction memory
\* (0 <= PC < number of loaded instructions).
C20_ValidPC ==
    lastReturn \in {"true", "false"} =>
        \A ti \in DOMAIN threads :
            \/ ~threads[ti].active
            \/ threads[ti].pc >= 0 /\ threads[ti].pc < Len(instructionMemory)

\* C21: after initializeBlocks, every thread of every block is in exactly
\* one warp, each warp holds at most 32 threads that are consecutive threads
\* of a single block, and only the last warp of a block holds fewer than 32.
C21_WarpPartition ==
    [][warps' # warps =>
        /\ \A ti \in DOMAIN threads' :
              Cardinality({w \in DOMAIN warps' :
                              \E k \in DOMAIN warps'[w].threads :
                                  warps'[w].threads[k] = ti}) = 1
        /\ \A w \in DOMAIN warps' :
              /\ Len(warps'[w].threads) >= 1
              /\ Len(warps'[w].threads) <= 32
              /\ \A k \in 1 .. Len(warps'[w].threads) - 1 :
                    /\ warps'[w].threads[k + 1] = warps'[w].threads[k] + 1
                    /\ threads'[warps'[w].threads[k + 1]].blockId =
                          threads'[warps'[w].threads[k]].blockId
              /\ Len(warps'[w].threads) < 32 =>
                    \/ w = Len(warps')
                    \/ threads'[warps'[w + 1].threads[1]].blockId #
                          threads'[warps'[w].threads[1]].blockId]_vars

\* A block of 33 threads was split into a warp of 32 and a warp of 1.
C21_Witness ==
    /\ Len(threads) = 33
    /\ Len(warps) = 2
    /\ Len(warps[1].threads) = 32
    /\ Len(warps[2].threads) = 1
    /\ threads[warps[2].threads[1]].blockId = threads[warps[1].threads[1]].blockId

\* The program im holds no branch instruction.
BranchFree(im) == \A i \in DOMAIN im : getOpcode(im[i]) \notin BranchOpcodes

\* C23: for a program without branch instructions, whenever maxCycles is
\* larger than the number of warps times (program length + 1), run() returns
\* in a state where every thread is inactive, with a cycle count below
\* maxCycles.  (run() returns in every case by the cycle limit, so the
\* statement is one about the state it returns in.)
C23_BranchFreeTerminates ==
    (/\ Halted
     /\ BranchFree(instructionMemory)
     /\ maxCycles > Len(warps) * (Len(instructionMemory) + 1))
    => /\ NoActive(threads)
       /\ cycle < maxCycles

\* C29: the memory controller's pending queue is empty at the end of every
\* executeCycle: in a cycle that selects a warp processRequests runs once,
\* after the requests of all the warp's active threads were queued.
C29_PendingEmpty == lastReturn # "none" => pendingRequests = << >>

\* C30: every executeCycle that selects a warp adds exactly 1 to the
\* engine's cycle counter and ticks the scheduler once, and the two
\* counters are equal after it.
C30_CycleTicks ==
    [][(/\ warps # << >>
        /\ warps' = warps
        /\ ~MaxCyclesReached(cycle, maxCycles)
        /\ getNextWarp(warps, threads, currentWarpIndex).warp # 0) =>
            /\ cycle' = cycle + 1
            /\ schedCycle' = schedCycle + 1
            /\ schedCycle' = cycle']_vars

\* C31: at the end of every executeCycle, every thread that executed an
\* instruction in the cycle has a registers snapshot equal to the register
\* file's 16 values for its id, and the snapshot is an array of its own (a
\* change of it does not reach the register file).
C31_SnapshotInSync ==
    \A ti \in DOMAIN executed :
        executed[ti] \notin {"none", "overrun"} =>
            /\ threads[ti].id \in DOMAIN registers
            /\ DOMAIN threads[ti].registers = 0 .. numRegisters - 1
            /\ threads[ti].registers = registers[threads[ti].id]
            /\ ~threads[ti].sharesRegisters

\* A warp of two threads has executed ADD after CONST: both snapshots hold
\* the sum, in a state where another block uses the same thread id.
C31_Witness ==
    /\ instructionMemory = ProgCount
    /\ Len(warps) = 2
    /\ Len(threads) = 3
    /\ executed[1] = "ADD"
    /\ executed[2] = "ADD"
    /\ threads[2].registers[0] = 1
    /\ threads[2].registers[1] = 1

\* C33: in a run after reset() and initializeBlocks, a load returns 0 (no
\* instruction of the model stores, and the caller stores only before the
\* first run): no line cached before the reset is served.
C33_LoadAfterReset ==
    [][(resets >= 1 /\ lastReturn' \in {"true", "false"}) =>
        \A ti \in DOMAIN executed' :
            executed'[ti] = "LDR" =>
                read(registers', threads[ti].id,
                     decode(Fetch(instructionMemory, threads[ti].pc)).rd) = 0]_vars

\* C35: a thread whose active flag is false keeps it false in every later
\* cycle; only the thread states of a new initializeBlocks are active again.
C35_InactiveStays ==
    [][warps # << >> =>
        \A ti \in DOMAIN threads :
            (~threads[ti].active /\ ti \in DOMAIN threads') =>
                ~threads'[ti].active]_vars

\* The second warp has just run past the program, in a cycle after the one
\* that deactivated the thread of the first warp.
C35_Witness ==
    /\ Len(warps) = 2
    /\ lastReturn = "false"
    /\ ~threads[1].active
    /\ executed[1] = "none"
    /\ executed[Len(threads)] = "overrun"

\* C38: in an engine configured with enableCache = false no executeCycle
\* raises, whatever LDR and STR instructions the program holds.
C38_NoCacheNoFault == ~config.enableCache => lastReturn # "threw"

\* C24: the state that run() and getState() return holds the final cycle
\* count, the global memory, and the thread states and block states of every
\* thread and block registered by initializeBlocks.
C24_StateSnapshot ==
    Halted =>
        /\ getState(memory, cycle).cycle = cycle
        /\ getState(memory, cycle).memory = memory
        /\ Len(getState(memory, cycle).threads) = Len(threads)
        /\ Len(getState(memory, cycle).blocks) =
              Cardinality({threads[ti].blockId : ti \in DOMAIN threads})

(***************************************************************************)
(* Properties of the cache (SpecCache) and of the controller (SpecMC)      *)
(***************************************************************************)
\* C3: a read at an address returns the value of the most recent write to
\* that address, for every sequence of reads and writes.
C3_CacheCoherence ==
    (lastAccess.kind = "read" /\ lastAccess.address \in DOMAIN written) =>
        lastAccess.data = written[lastAccess.address]

\* C25: after Cache.write(A, d, memory), on a hit or a miss, memory[A] is d,
\* the line that A maps to is valid and dirty with A's tag, and a read of A
\* that follows immediately is a hit that returns d.
C25_WriteThrough ==
    lastAccess.kind = "write" =>
        /\ ~lastAccess.threw
        /\ ArrayGet(memory, lastAccess.address) = lastAccess.data
        /\ lastAccess.address \in DOMAIN memory
        /\ cache.lines[getLineIndex(cache, lastAccess.address)].valid
        /\ cache.lines[getLineIndex(cache, lastAccess.address)].dirty
        /\ cache.lines[getLineIndex(cache, lastAccess.address)].tag =
              getTag(cache, lastAccess.address)
        /\ CacheRead(cache, memory, lastAccess.address).hit
        /\ ~CacheRead(cache, memory, lastAccess.address).threw
        /\ CacheRead(cache, memory, lastAccess.address).data = lastAccess.data

\* A write of address 5 missed in a cache that had missed before and holds
\* two lines: the write loaded the line and then stored into it.
C25_Witness ==
    /\ lastAccess.kind = "write"
    /\ lastAccess.address = 5
    /\ cache.config.cacheSize = 2
    /\ cache.misses = 2
    /\ cache.hits = 0
    /\ opCount = 2

\* C26: a write-back, on the eviction of a valid dirty line by a miss or by
\* flush, writes each word of the line to the address it was loaded from,
\* so that, every write being written through, it leaves the content of
\* memory unchanged; flush leaves no line dirty.  Here: a read or a flush
\* changes no word of memory, and after a flush no line is dirty.
C26_WriteBackHarmless ==
    [][(opCount' = opCount + 1 /\ lastAccess'.kind \in {"read", "flush"}) =>
        /\ memory' = memory
        /\ lastAccess'.kind = "flush" =>
              \A i \in DOMAIN cache'.lines : ~cache'.lines[i].dirty]_vars

\* C34: after any sequence of cache reads and writes every valid line is
\* consistent with memory: for every address that the line stands for (the
\* addresses with the line's index and tag), the line's word at the
\* address's offset is the memory word at the address, or 0 beyond memory.
C34_LinesConsistent ==
    \A i \in DOMAIN cache.lines :
        cache.lines[i].valid =>
            \A a \in 0 .. CacheMemoryWords + 3 :
                (getLineIndex(cache, a) = i /\ getTag(cache, a) = cache.lines[i].tag) =>
                    cache.lines[i].data[getOffset(cache, a)] = ArrayGet(memory, a)

\* C4: processRequests leaves the memory and the response data that
\* servicing the batch one request at a time, in address-sorted order and
\* without merging, leaves.
C4_CoalescingSafe ==
    reference # << >> =>
        /\ mcMemory = reference[1].memory
        /\ responseQueue = reference[1].responses

(***************************************************************************)
(* Properties of the decoder (SpecDecode)                                  *)
(***************************************************************************)
\* C11: decode of any 32-bit word returns an instruction (it has no path
\* that raises) whose opcode is the one the table gives the word's top byte
\* for the bytes 0x00 to 0x11, and NOP for every other top byte.
C11_DecodeTotal ==
    lastAccess.kind = "decode" =>
        lastAccess.ins.opcode =
            IF lastAccess.byte <= 17 THEN opcodes[lastAccess.byte + 1] ELSE "NOP"

\* A word with bit 31 set and an unknown opcode byte was decoded to NOP.
C11_Witness ==
    /\ lastAccess.kind = "decode"
    /\ lastAccess.byte = 200
    /\ lastAccess.word < 0
    /\ lastAccess.ins.opcode = "NOP"

\* The opcodes whose decoded instruction carries an immediate.
ImmediateOpcodes == {"CONST", "LDR", "STR"} \cup BranchOpcodes

\* The 16-bit field f read as a two's-complement number.
SignedSixteen(f) == IF f >= 32768 THEN f - 65536 ELSE f

\* C32: the decoded instruction of every word with an opcode that carries an
\* immediate (CONST, LDR, STR, the branches) has an immediate, equal to bits
\* 15-0 of the word read as a two's-complement number in [-32768, 32767];
\* every register field a decoded instruction has is rd = bits 23-20,
\* rs1 = bits 19-16, rs2 = bits 15-12 of the word.
C32_FieldsAndImmediate ==
    lastAccess.kind = "decode" =>
        LET ins == lastAccess.ins
            low == lastAccess.low
        IN  /\ ins.opcode \in ImmediateOpcodes =>
                  /\ "immediate" \in ins.has
                  /\ ins.immediate = SignedSixteen(low % 65536)
                  /\ ins.immediate >= -32768
                  /\ ins.immediate <= 32767
            /\ "immediate" \in ins.has => ins.opcode \in ImmediateOpcodes
            /\ "rd" \in ins.has => ins.rd = low \div 1048576
            /\ "rs1" \in ins.has => ins.rs1 = (low \div 65536) % 16
            /\ "rs2" \in ins.has => ins.rs2 = (low \div 4096) % 16

\* LDR with the fields 0xA, 0xB and the immediate 0xCDEF was decoded: the
\* immediate is negative.
C32_Witness ==
    /\ lastAccess.kind = "decode"
    /\ lastAccess.ins.opcode = "LDR"
    /\ lastAccess.ins.rd = 10
    /\ lastAccess.ins.rs1 = 11
    /\ lastAccess.ins.immediate = -12817

(***************************************************************************)
(* Properties of the register file (SpecRegs)                              *)
(***************************************************************************)
\* C15: a read of a thread the file has not initialized, or of a register
\* index outside [0, 16), returns 0; a write with an index outside [0, 16)
\* leaves every register of every thread as it was (a thread the write
\* initializes has sixteen zeros, which is what it read before).  read and
\* write have no path that raises.
C15_OutOfRangeRegister ==
    [][opCount' = opCount + 1 =>
        /\ (/\ lastAccess'.kind = "read"
            /\ \/ lastAccess'.threadId \notin DOMAIN registers
               \/ lastAccess'.reg < 0
               \/ lastAccess'.reg >= 16)
           => lastAccess'.value = 0
        /\ (lastAccess'.kind = "write" /\ (lastAccess'.reg < 0 \/ lastAccess'.reg >= 16))
           => /\ \A t \in DOMAIN registers : registers'[t] = registers[t]
              /\ \A t \in DOMAIN registers' \ DOMAIN registers :
                     \A r \in 0 .. 15 : registers'[t][r] = 0]_vars

\* A write at index 16 was made to a thread whose R15 holds 7 and whose
\* R0 holds 0xFFFFFFFF.
C15_Witness ==
    /\ lastAccess.kind = "write"
    /\ lastAccess.reg = 16
    /\ lastAccess.threadId \in DOMAIN registers
    /\ registers[lastAccess.threadId][15] = 7
    /\ registers[lastAccess.threadId][0] = -1

(***************************************************************************)
(* Properties of the execution unit (SpecALU).  The sign bit of a word is  *)
(* set exactly when the word, read as a signed integer, is negative.       *)
(***************************************************************************)
\* C12: the overflow flag that executeALU returns for ADD is true exactly
\* when a and b have the same sign bit and (a + b) mod 2^32 has the
\* opposite sign bit.
C12_AddOverflow ==
    (lastAccess.kind = "alu" /\ lastAccess.op = "ADD") =>
        (lastAccess.out.overflow <=>
            /\ (lastAccess.a < 0) = (lastAccess.b < 0)
            /\ (lastAccess.out.result < 0) # (lastAccess.a < 0))

\* C13: the overflow flag that executeALU returns for SUB is true exactly
\* when a and b have different sign bits and (a - b) mod 2^32 has a sign
\* bit different from a's.
C13_SubOverflow ==
    (lastAccess.kind = "alu" /\ lastAccess.op = "SUB") =>
        (lastAccess.out.overflow <=>
            /\ (lastAccess.a < 0) # (lastAccess.b < 0)
            /\ (lastAccess.out.result < 0) # (lastAccess.a < 0))

\* C16: a DIV whose second operand is 0 writes 0 to its destination for
\* every first operand, raises nothing, and leaves the thread at PC + 1.
C16_DivByZero ==
    (/\ executed[1] = "DIV"
     /\ read(registers, 0, 1) = 0)
    => /\ read(registers, 0, 2) = 0
       /\ threads[1].registers[2] = 0
       /\ threads[1].pc = 1
       /\ lastReturn # "threw"

\* 0x80000000 / 0 was executed.
C16_Witness ==
    /\ executed[1] = "DIV"
    /\ read(registers, 0, 0) = MinInt32
    /\ read(registers, 0, 1) = 0
    /\ threads[1].pc = 1

\* C14: a store at an address at or beyond the configured global memory
\* size leaves global memory as it was, its length included.  Here: a
\* processRequests whose pending requests all lie beyond the end of the
\* controller's memory leaves that memory unchanged.
C14_OutOfRangeDropped ==
    [][(/\ opCount' = opCount + 1
        /\ pendingRequests # << >>
        /\ pendingRequests' = << >>
        /\ \A i \in DOMAIN pendingRequests :
              pendingRequests[i].address >= config.memory.globalMemorySize)
       => /\ mcMemory' = mcMemory
          /\ ArrayLength(mcMemory') = config.memory.globalMemorySize]_vars

\* C19: after processRequests, every request of the batch has its own
\* response under its id threadId * 1000000 + blockId * 10000 + address: the
\* ids of the batch are pairwise distinct entries of the response queue, and
\* the response of a write carries that write's data.
C19_IndependentResponses ==
    \A i \in DOMAIN lastAccess :
        /\ getRequestId(lastAccess[i]) \in DOMAIN responseQueue
        /\ lastAccess[i].write =>
              responseQueue[getRequestId(lastAccess[i])].data = lastAccess[i].data
        /\ \A j \in DOMAIN lastAccess :
              i # j => getRequestId(lastAccess[i]) # getRequestId(lastAccess[j])

WarpHasActive(w) ==
    \E k \in DOMAIN warps[w].threads : threads[warps[w].threads[k]].active

\* The number of warps between the cursor and warp w in cyclic order.
FromCursor(w) == ((w - 1) - currentWarpIndex) % Len(warps)

\* C22: getNextWarp returns the first warp, in cyclic order from the
\* round-robin cursor, that has an active thread, and moves the cursor just
\* past it; it returns null exactly when no warp has an active thread.
C22_RoundRobin ==
    [][(opCount' = opCount + 1 /\ lastAccess'.kind = "next") =>
        /\ lastAccess'.warp = 0 <=> \A w \in DOMAIN warps : ~WarpHasActive(w)
        /\ lastAccess'.warp # 0 =>
              /\ lastAccess'.warp \in DOMAIN warps
              /\ WarpHasActive(lastAccess'.warp)
              /\ \A w \in DOMAIN warps :
                    FromCursor(w) < FromCursor(lastAccess'.warp) => ~WarpHasActive(w)
              /\ currentWarpIndex' = lastAccess'.warp % Len(warps)]_vars

\* With the cursor at the second of three warps, getNextWarp skipped the
\* second and third warp, wrapped around and returned the first.
C22_Witness ==
    /\ lastAccess.kind = "next"
    /\ lastAccess.warp = 1
    /\ currentWarpIndex = 1
    /\ opCount = 2
    /\ Len(warps) = 3
    /\ WarpHasActive(1)
    /\ ~WarpHasActive(2)
    /\ ~WarpHasActive(3)

\* C28: isWarpDiverged(warp) is true exactly when two active threads of the
\* warp have different PCs; inactive threads do not influence the result.
C28_Diverged ==
    lastAccess.kind = "diverged" =>
        (lastAccess.result <=>
            \E k \in DOMAIN warps[lastAccess.warp].threads,
               m \in DOMAIN warps[lastAccess.warp].threads :
                /\ threads[warps[lastAccess.warp].threads[k]].active
                /\ threads[warps[lastAccess.warp].threads[m]].active
                /\ threads[warps[lastAccess.warp].threads[k]].pc #
                      threads[warps[lastAccess.warp].threads[m]].pc)

(***************************************************************************)
(* Fairness of the selection in the engine (Spec)                          *)
(***************************************************************************)
\* A thread of warp w went through the loop of the executeCycle of this step.
SelectedIn(w) ==
    \E k \in DOMAIN warps[w].threads : executed'[warps[w].threads[k]] # "none"

\* C36: no starvation.  Every executeCycle that selects a warp selects one
\* warp s, the first in cyclic order from the cursor that has an active
\* thread, and leaves the cursor just past s: every other warp w with an
\* active thread is then strictly nearer to the cursor, so w is selected
\* within Len(warps) executed cycles, and between two selections of w the
\* cursor passes every other warp once, selecting it if it has an active
\* thread.
C36_NoStarvation ==
    [][(/\ warps # << >>
        /\ warps' = warps
        /\ \E ti \in DOMAIN executed' : executed'[ti] # "none") =>
            \E s \in DOMAIN warps :
                /\ \A w \in DOMAIN warps : SelectedIn(w) <=> w = s
                /\ WarpHasActive(s)
                /\ currentWarpIndex' = s % Len(warps)
                /\ \A w \in DOMAIN warps \ {s} :
                      /\ FromCursor(w) < FromCursor(s) => ~WarpHasActive(w)
                      /\ WarpHasActive(w) =>
                            ((w - 1) - currentWarpIndex') % Len(warps) < FromCursor(w)]_vars

\* With three warps, the first warp is selected for the second time in the
\* fourth cycle, the other two having been selected once each in between.
C36_Witness ==
    /\ Len(warps) = 3
    /\ cycle = 4
    /\ executed[1] # "none"
    /\ currentWarpIndex = 1

\* C37: an executeCycle that halts on entry (the cycle counter is at least
\* maxCycles, or no warp has an active thread) changes no state: the cycle
\* counter, the scheduler's cycle counter and cursor, the registers, the
\* memory, the cache, the threads and the memory controller are as before.
C37_HaltChangesNothing ==
    [][(/\ warps # << >>
        /\ resets' = resets
        /\ \/ cycle >= maxCycles
           \/ \A w \in DOMAIN warps : ~WarpHasActive(w)) =>
            /\ lastReturn' = "false"
            /\ UNCHANGED << cycle, schedCycle, currentWarpIndex, registers, memory,
                            cache, threads, warps, instructionMemory, mcMemory,
                            pendingRequests, responseQueue >>]_vars

\* An executeCycle below the cycle limit has halted on entry: the call
\* before it had deactivated the last thread of the second warp, and no
\* thread went through the loop of this one.
C37_Witness ==
    /\ Len(warps) = 2
    /\ lastReturn = "false"
    /\ cycle < maxCycles
    /\ \A w \in DOMAIN warps : ~WarpHasActive(w)
    /\ \A ti \in DOMAIN executed : executed[ti] = "none"
    /\ threads[1].pc > 0

====
